---- MODULE Spec2Model ----
(***************************************************************************)
(* A model of pandas_ta_tnt.trend.zigzag: the call zigzag(high, low,       *)
(* close, legs, deviation, offset, fillna=...) as a state machine that     *)
(* walks through validation, nb_rolling_hl (the Scanner), nb_find_zigzags  *)
(* (the Reducer, one loop iteration per step), nb_map_zigzag (the          *)
(* Densifier), the offset shift and the fill.                              *)
(*                                                                         *)
(* Conventions.                                                            *)
(*  - Python's None is <<>> and a present value x is <<x>>; NaN in an      *)
(*    output array is <<>> as well, a number there is <<x>>.               *)
(*  - Array positions are 0-based as in the source; At0 reads a TLA+       *)
(*    sequence at a 0-based position.                                      *)
(*  - Prices are integers.  A deviation 100 * (a - b) / c is kept as the   *)
(*    exact fraction [num |-> 100 * (a - b), den |-> c]; the comparisons   *)
(*    the code makes on it are made by cross-multiplication.               *)
(*  - nb_rolling_hl and nb_find_zigzags are compiled without bounds        *)
(*    checks: an access outside an array is undefined behaviour, modelled  *)
(*    as a choice between the run dying (pc = "fault") and the run going   *)
(*    on with the stray write lost and the stray read unused.              *)
(***************************************************************************)
EXTENDS Integers, Sequences, FiniteSets, TLC

VARIABLES
    inp,        \* the arguments of the call
    pc,         \* where the call is
    legs,       \* zigzag's local legs after validation
    deviation,  \* zigzag's local deviation after validation
    offset,     \* zigzag's local offset after validation and clamping
    hl,         \* nb_rolling_hl's result: the extremum list idx/swing/value
    extremums,  \* nb_rolling_hl's write cursor when it returned
    zz,         \* nb_find_zigzags' buffers zz_idx/zz_swing/zz_value/zz_dev
    zigzags,    \* nb_find_zigzags' cursor
    i,          \* nb_find_zigzags' loop index
    act,        \* history: what the last iteration of the walk did
    oob,        \* history: an array was accessed outside its bounds
    run,        \* history: per swing slot, the most extreme same-direction
                \* candidate value the walk visited while the slot was pending
    zzr,        \* nb_find_zigzags' result (the buffers cut to zigzags + 1)
    dense,      \* nb_map_zigzag's result: three arrays
    shifted,    \* the three arrays after the offset stage
    out,        \* what zigzag returned
    prev,       \* history: the outcome of the call of zigzag made before
    ich,        \* the call of ichimoku: arguments, position and lines
    tr          \* the call of cube or ifisher: arguments, position, columns

\* the variables of the call of zigzag
zvars == <<inp, pc, legs, deviation, offset, hl, extremums, zz, zigzags, i,
           act, oob, run, zzr, dense, shifted, out>>

vars == <<inp, pc, legs, deviation, offset, hl, extremums, zz, zigzags, i,
          act, oob, run, zzr, dense, shifted, out, prev, ich, tr>>

----------------------------------------------------------------------------
(* Bounds of the model and constants of the program *)

MaxN == 8
MaxParamN == 4
MaxSwings == 3
DefaultLegs == 10
DefaultDeviation == 5
DefaultTenkan == 9
DefaultKijun == 26
DefaultSenkou == 52
DefaultPwr == 3
DefaultAmp == 1

None == <<>>
Some(x) == <<x>>
NaN == <<>>
At0(s, k) == s[k + 1]

\* the lows and the highs of the series explored
LowLevels == {1, 2}
HighLevels == {3, 4}
AlgoDeviations == {40}

----------------------------------------------------------------------------
(* Exact fractions for deviations *)

Rat(n, d) == [num |-> n, den |-> d]
RatZero == Rat(0, 1)

----------------------------------------------------------------------------
(* The validation helpers of pandas_ta_tnt.utils *)

\* the outcome of a validation helper that fails the call: no value
Rejected == <<>>

\* v_pos_default(var, default): the default when var is absent, var when it
\* is a number > 0; a supplied number <= 0 is rejected, the call fails
v_pos_default(var, default) ==
    IF var = None THEN Some(default)
    ELSE IF var[1] > 0 THEN Some(var[1])
    ELSE Rejected

\* v_series(series, length): the series when it has at least length
\* elements, else None
v_series(series, length) ==
    IF series # None /\ Len(series[1]) >= length THEN series ELSE None

\* v_offset(var): the integer given, 0 when absent
v_offset(var) ==
    IF var # None THEN var[1] ELSE 0

\* v_bool(var, default): var when it is a bool, else default
v_bool(var, default) ==
    IF var # None /\ var[1] \in BOOLEAN THEN var[1] ELSE default

\* legs = v_pos_default(legs, 10)
LegsArg(var) == v_pos_default(var, DefaultLegs)

\* MinLength with the "+ 1" dropped
MinLengthOffByOne(l) == l

\* _length = legs + 1
MinLength(l) == l + 1

\* deviation = v_pos_default(deviation, 5.0)
DeviationArg(var) == v_pos_default(var, DefaultDeviation)

\* ClampOffset without the clamp
ClampOffsetNone(o) == o

\* offset = max(offset, 0)
ClampOffset(o) == IF o > 0 THEN o ELSE 0

\* offset = v_offset(offset); offset = max(offset, 0)
OffsetArg(var) == ClampOffset(v_offset(var))

----------------------------------------------------------------------------
(* nb_rolling_hl: the Scanner *)

Left(window_size) == window_size \div 2
Right(window_size) == Left(window_size) + 1

\* (low_center <= low_window).all() for the window [c - left, c + right)
LowHit(np_low, c, left, right) ==
    \A j \in (c - left)..(c + right - 1) : At0(np_low, c) <= At0(np_low, j)

\* (high_center >= high_window).all()
HighHit(np_high, c, left, right) ==
    \A j \in (c - left)..(c + right - 1) : At0(np_high, c) >= At0(np_high, j)

\* idx[extremums] = ...; extremums += 1 on buffers of size m: a write at
\* extremums >= m is outside the buffers and is not part of the slice returned
Emit(st, m, c, s, v) ==
    [ext |-> IF st.extremums < m
             THEN Append(st.ext, [idx |-> c, swing |-> s, value |-> v])
             ELSE st.ext,
     extremums |-> st.extremums + 1]

ScanCentre(st, np_high, np_low, c, left, right) ==
    LET m == Len(np_high)
        a == IF LowHit(np_low, c, left, right)
             THEN Emit(st, m, c, -1, At0(np_low, c)) ELSE st
    IN  IF HighHit(np_high, c, left, right)
        THEN Emit(a, m, c, 1, At0(np_high, c)) ELSE a

\* ScanFrom with the loop running to m - left: the last centre's window
\* ends on the last bar
RECURSIVE ScanFromToEnd(_, _, _, _, _, _)
ScanFromToEnd(st, np_high, np_low, c, left, right) ==
    IF c >= Len(np_high) - left THEN st
    ELSE ScanFromToEnd(ScanCentre(st, np_high, np_low, c, left, right),
                       np_high, np_low, c + 1, left, right)

\* for i in range(left, m - right), lines 24-40
RECURSIVE ScanFrom(_, _, _, _, _, _)
ScanFrom(st, np_high, np_low, c, left, right) ==
    IF c >= Len(np_high) - right THEN st
    ELSE ScanFrom(ScanCentre(st, np_high, np_low, c, left, right),
                  np_high, np_low, c + 1, left, right)

nb_rolling_hl(np_high, np_low, window_size) ==
    ScanFrom([ext |-> <<>>, extremums |-> 0], np_high, np_low,
             Left(window_size), Left(window_size), Right(window_size))

----------------------------------------------------------------------------
(* nb_find_zigzags: the Reducer *)

ZeroSwing == [idx |-> 0, swing |-> 0, value |-> 0, dev |-> RatZero]

\* DevExceeds with 100 * current_dev compared to 0.01 * deviation
DevExceedsScaled(n, d, dv) ==
    IF d > 0 THEN 10000 * n > dv * d ELSE 10000 * n < dv * d

\* current_dev > 0.01 * deviation, for current_dev = n / d
DevExceeds(n, d, dv) ==
    IF d > 0 THEN 100 * n > dv * d ELSE 100 * n < dv * d

\* AmendGate open as soon as one swing is finalized
AmendGateOne(z) == z > 0

\* the "and zigzags > 1" of the two amendment tests
AmendGate(z) == z > 1

\* zz_idx[zigzags] = idx[i]; zz_swing[zigzags] = ...; zz_value[zigzags] = ...
SetSwing(b, z, c) ==
    [b EXCEPT ![z + 1] = [idx |-> c.idx, swing |-> c.swing,
                          value |-> c.value, dev |-> @.dev]]

\* SetDev writing zz_dev[zigzags] instead of zz_dev[zigzags - 1]
SetDevOnPending(b, z, n, d) ==
    [b EXCEPT ![z + 1] = [@ EXCEPT !.dev = Rat(100 * n, d)]]

\* zz_dev[zigzags - 1] = 100 * current_dev, current_dev = n / d
SetDev(b, z, n, d) ==
    [b EXCEPT ![z] = [@ EXCEPT !.dev = Rat(100 * n, d)]]

\* One iteration of the reverse walk on candidate c, from buffers b and
\* cursor z to [zz, zigzags, kind].  kind names the branch taken: "amend"
\* (lines 64-68, 84-88), "ignore" (a same-direction candidate that fails the
\* test of line 63 or 83), "commit" (lines 74-78, 94-98), "dup" (the continue
\* of lines 73, 93), "discard" (the test of line 71 or 91 fails) and "fault"
\* (the ZeroDivisionError of a division by value[i] = 0).
Kept(b, z, k) == [zz |-> b, zigzags |-> z, kind |-> k]

\* Amend without line 68 / 88: the deviation is left as it was
AmendKeepDev(b, z, c, n) ==
    IF c.value = 0 THEN Kept(b, z, "fault")
    ELSE [zz |-> SetSwing(b, z, c), zigzags |-> z, kind |-> "amend"]

\* lines 64-68 and 84-88 for current_dev = n / c.value
Amend(b, z, c, n) ==
    IF c.value = 0 THEN Kept(b, z, "fault")
    ELSE [zz |-> SetDev(SetSwing(b, z, c), z, n, c.value),
          zigzags |-> z, kind |-> "amend"]

\* Commit without the test of lines 72 and 92
CommitNoGuard(b, z, c, n, dv) ==
    IF c.value = 0 THEN Kept(b, z, "fault")
    ELSE IF DevExceeds(n, c.value, dv)
         THEN [zz |-> SetDev(SetSwing(b, z + 1, c), z + 1, n, c.value),
               zigzags |-> z + 1, kind |-> "commit"]
         ELSE Kept(b, z, "discard")

\* Commit on the absolute value of current_dev
CommitAbs(b, z, c, n, dv) ==
    LET a == IF n >= 0 THEN n ELSE -n
    IN  IF c.value = 0 THEN Kept(b, z, "fault")
        ELSE IF DevExceeds(a, c.value, dv)
             THEN IF At0(b, z).idx = c.idx THEN Kept(b, z, "dup")
                  ELSE [zz |-> SetDev(SetSwing(b, z + 1, c), z + 1, a, c.value),
                        zigzags |-> z + 1, kind |-> "commit"]
             ELSE Kept(b, z, "discard")

\* lines 70-78 and 90-98 for current_dev = n / c.value
Commit(b, z, c, n, dv) ==
    IF c.value = 0 THEN Kept(b, z, "fault")
    ELSE IF DevExceeds(n, c.value, dv)
         THEN IF At0(b, z).idx = c.idx THEN Kept(b, z, "dup")
              ELSE [zz |-> SetDev(SetSwing(b, z + 1, c), z + 1, n, c.value),
                    zigzags |-> z + 1, kind |-> "commit"]
         ELSE Kept(b, z, "discard")

\* WalkStep with a same-direction candidate that is not an amendment sent
\* to the commit test
WalkStepCommitSame(b, z, c, dv) ==
    LET cur == At0(b, z)
    IN  IF cur.swing = -1
        THEN IF c.swing = -1
             THEN IF cur.value > c.value /\ AmendGate(z)
                  THEN Amend(b, z, c, At0(b, z - 1).value - c.value)
                  ELSE Commit(b, z, c, c.value - cur.value, dv)
             ELSE Commit(b, z, c, c.value - cur.value, dv)
        ELSE IF c.swing = 1
             THEN IF cur.value < c.value /\ AmendGate(z)
                  THEN Amend(b, z, c, c.value - At0(b, z - 1).value)
                  ELSE Commit(b, z, c, cur.value - c.value, dv)
             ELSE Commit(b, z, c, cur.value - c.value, dv)

WalkStep(b, z, c, dv) ==
    LET cur == At0(b, z)
    IN  IF cur.swing = -1
        THEN IF c.swing = -1
             THEN IF cur.value > c.value /\ AmendGate(z)
                  THEN Amend(b, z, c, At0(b, z - 1).value - c.value)
                  ELSE Kept(b, z, "ignore")
             ELSE Commit(b, z, c, c.value - cur.value, dv)
        ELSE IF c.swing = 1
             THEN IF cur.value < c.value /\ AmendGate(z)
                  THEN Amend(b, z, c, c.value - At0(b, z - 1).value)
                  ELSE Kept(b, z, "ignore")
             ELSE Commit(b, z, c, cur.value - c.value, dv)

\* the more extreme of two values in direction s
MoreExtreme(s, a, b) ==
    IF s = 1 THEN (IF a >= b THEN a ELSE b) ELSE (IF a <= b THEN a ELSE b)

----------------------------------------------------------------------------
(* nb_map_zigzag: the Densifier *)

ZeroCell == [swing |-> 0, value |-> 0, dev |-> RatZero]

RECURSIVE MapWrite(_, _, _)
MapWrite(cells, swings, j) ==
    IF j > Len(swings) THEN cells
    ELSE MapWrite([cells EXCEPT ![swings[j].idx + 1] =
                       [swing |-> swings[j].swing, value |-> swings[j].value,
                        dev |-> swings[j].dev]],
                  swings, j + 1)

\* nb_map_zigzag with the missing marker written where value_map is 0
nb_map_zigzag_by_value(swings, n) ==
    LET cells == MapWrite([k \in 1..n |-> ZeroCell], swings, 1)
    IN  [swing |-> [k \in 1..n |-> IF cells[k].value = 0 THEN NaN
                                   ELSE Some(cells[k].swing)],
         value |-> [k \in 1..n |-> IF cells[k].value = 0 THEN NaN
                                   ELSE Some(cells[k].value)],
         dev   |-> [k \in 1..n |-> IF cells[k].value = 0 THEN NaN
                                   ELSE Some(cells[k].dev)]]

\* lines 106-122: zeros(n), the writes at int(idx[j]), then nan wherever
\* swing_map is 0
nb_map_zigzag(swings, n) ==
    LET cells == MapWrite([k \in 1..n |-> ZeroCell], swings, 1)
    IN  [swing |-> [k \in 1..n |-> IF cells[k].swing = 0 THEN NaN
                                   ELSE Some(cells[k].swing)],
         value |-> [k \in 1..n |-> IF cells[k].swing = 0 THEN NaN
                                   ELSE Some(cells[k].value)],
         dev   |-> [k \in 1..n |-> IF cells[k].swing = 0 THEN NaN
                                   ELSE Some(cells[k].dev)]]

----------------------------------------------------------------------------
(* Series.shift and Series.fillna *)

RECURSIVE NaNs(_)
NaNs(k) == IF k <= 0 THEN <<>> ELSE <<NaN>> \o NaNs(k - 1)

\* SeriesShift without the cut to the series' length
SeriesShiftUncut(s, k) == NaNs(k) \o s

\* Series.shift(k): the values move k positions towards the end (towards the
\* start for k < 0), the length stays, the positions left empty are missing
SeriesShift(s, k) ==
    IF k >= 0 THEN SubSeq(NaNs(k) \o s, 1, Len(s))
    ELSE SubSeq(s \o NaNs(-k), Len(s \o NaNs(-k)) - Len(s) + 1,
                Len(s \o NaNs(-k)))

ShiftAll(d, k) ==
    [swing |-> SeriesShift(d.swing, k),
     value |-> SeriesShift(d.value, k),
     dev   |-> SeriesShift(d.dev, k)]

\* Series.fillna(v)
SeriesFill(s, v) == [k \in 1..Len(s) |-> IF s[k] = NaN THEN Some(v) ELSE s[k]]

FillAll(d, v) ==
    [swing |-> SeriesFill(d.swing, v),
     value |-> SeriesFill(d.value, v),
     dev   |-> SeriesFill(d.dev, Rat(v, 1))]

----------------------------------------------------------------------------
(* The calls explored *)

Call(h, l, c, lg, dv, o, f) ==
    [high |-> h, low |-> l, close |-> c, legs |-> lg, deviation |-> dv,
     retrace |-> None, last_extreme |-> None, offset |-> o, fillna |-> f]

\* np_high with the close series taken for high when close is supplied
np_high_of_close(c) == IF c.close # None THEN c.close[1] ELSE c.high

\* np_high, np_low = high.to_numpy(), low.to_numpy()
np_high(c) == c.high
np_low(c) == c.low

\* every high/low series of up to MaxN bars over the levels, 3-bar window,
\* no other argument.  The last bar is outside every window of the Scanner
\* (i + right <= m - 1), so it is the same bar <<1, 3>> in all of them;
\* ParamInputs varies it.
AlgoInputs(c) ==
    \E n \in 1..MaxN :
        \E h \in [1..(n - 1) -> HighLevels], l \in [1..(n - 1) -> LowLevels],
           d \in AlgoDeviations :
            c = Call(Append(h, 3), Append(l, 1), None, Some(2), Some(d),
                     None, None)

\* series of up to MaxN bars that gap: a bar is <<1, 2>> or <<3, 4>>, so the
\* high of one bar can lie below the low of another; 3-bar window, threshold
\* 10 or 30, the last bar <<1, 2>>
GapInputs(c) ==
    \E n \in 1..MaxN :
        \E l \in [1..(n - 1) -> {1, 3}], d \in {10, 30} :
            c = Call(Append([k \in 1..(n - 1) |-> l[k] + 1], 2), Append(l, 1),
                     None, Some(2), Some(d), None, None)

\* short series under every combination of the other arguments
ParamInputs(c) ==
    \E n \in 1..MaxParamN :
        \E h \in [1..n -> HighLevels],
           cl \in {None, Some([k \in 1..n |-> 2]), Some(<<2>>)},
           lg \in {None, Some(0), Some(1), Some(2), Some(3), Some(10)},
           dv \in {None, Some(0), Some(40)},
           o \in {None, Some(-1), Some(0), Some(1), Some(2)},
           f \in {None, Some(0)} :
            c = Call(h, [k \in 1..n |-> 1], cl, lg, dv, o, f)

\* the close series and the placeholder arguments a call is repeated with
CloseArgs(n) ==
    {None, Some([k \in 1..n |-> 2]), Some([k \in 1..n |-> 2 + (k % 2)])}
BoolArgs == {None, Some(TRUE), Some(FALSE)}

\* short series with a full-length close or none and placeholder arguments
CloseInputs(c) ==
    \E n \in 1..(MaxParamN + 1) :
        \E h \in [1..n -> HighLevels],
           cl \in CloseArgs(n),
           lg \in {Some(2)},
           o \in {None, Some(1)},
           f \in {None, Some(0)},
           r \in {None, Some(TRUE)},
           e \in {None, Some(FALSE)} :
            c = [Call(h, [k \in 1..n |-> 1], cl, lg, Some(40), o, f)
                   EXCEPT !.retrace = r, !.last_extreme = e]

\* the scenario of the specification's testable properties
ScenarioInputs(c) ==
    c = Call(<<1, 3, 2, 5, 1, 6, 2>>, <<0, 2, 1, 3, 0, 4, 1>>, None,
             Some(1), Some(10), None, None)

\* the swings handed to nb_map_zigzag on its own: direction, value and
\* deviation, a zero value and a zero deviation among them
SwingKinds ==
    {[swing |-> -1, value |-> 0, dev |-> RatZero],
     [swing |-> 1, value |-> 3, dev |-> RatZero],
     [swing |-> -1, value |-> 1, dev |-> Rat(200, 1)],
     [swing |-> 1, value |-> 4, dev |-> Rat(300, 4)]}

\* every list s of up to MaxSwings swings at positions of [0, n), in any
\* order, a position possibly taken twice
MapInputs(n, s) ==
    \E k \in 0..MaxSwings :
        \E p \in [1..k -> 0..(n - 1)], q \in [1..k -> SwingKinds] :
            s = [j \in 1..k |-> [idx |-> p[j], swing |-> q[j].swing,
                                 value |-> q[j].value, dev |-> q[j].dev]]

----------------------------------------------------------------------------
(* The state machine *)

NoDense == [swing |-> <<>>, value |-> <<>>, dev |-> <<>>]

\* a function that has not been called
Idle == [pc |-> "idle"]

Init ==
    /\ \/ AlgoInputs(inp)
       \/ ParamInputs(inp)
       \/ ScenarioInputs(inp)
       \/ GapInputs(inp)
    /\ pc = "validate"
    /\ legs = 0
    /\ deviation = 0
    /\ offset = 0
    /\ hl = <<>>
    /\ extremums = 0
    /\ zz = <<>>
    /\ zigzags = 0
    /\ i = 0
    /\ act = "none"
    /\ oob = FALSE
    /\ run = <<>>
    /\ zzr = <<>>
    /\ dense = NoDense
    /\ shifted = NoDense
    /\ out = None
    /\ prev = None
    /\ ich = Idle
    /\ tr = Idle

\* zigzag, lines 153-170: validation.  A helper that rejects its argument
\* ends the call there with a failure (pc = "rejected"): legs at line 154,
\* before the length test of lines 156-164, deviation at line 166, after it.
Validate ==
    /\ pc = "validate"
    /\ LET lg == LegsArg(inp.legs)
           dv == DeviationArg(inp.deviation)
       IN  IF lg = Rejected
           THEN /\ pc' = "rejected"
                /\ UNCHANGED <<legs, deviation, offset>>
           ELSE LET retrace == v_bool(inp.retrace, FALSE)
                    last_extreme == v_bool(inp.last_extreme, TRUE)
                    high == v_series(Some(inp.high), MinLength(lg[1]))
                    low == v_series(Some(inp.low), MinLength(lg[1]))
                    close == v_series(inp.close, MinLength(lg[1]))
                IN  /\ legs' = lg[1]
                    /\ IF high = None \/ low = None
                          \/ (inp.close # None /\ close = None)
                       THEN /\ pc' = "none"
                            /\ UNCHANGED <<deviation, offset>>
                       ELSE IF dv = Rejected
                       THEN /\ pc' = "rejected"
                            /\ UNCHANGED <<deviation, offset>>
                       ELSE /\ deviation' = dv[1]
                            /\ offset' = OffsetArg(inp.offset)
                            /\ pc' = "scan"
    /\ UNCHANGED <<inp, hl, extremums, zz, zigzags, i, act, oob, run, zzr,
                   dense, shifted, out>>
    /\ UNCHANGED <<prev, ich, tr>>

\* zigzag, lines 173-174: the Scanner.  A write past the buffers is
\* undefined behaviour.
Scan ==
    /\ pc = "scan"
    /\ LET r == nb_rolling_hl(np_high(inp), np_low(inp), legs)
       IN  /\ hl' = r.ext
           /\ extremums' = r.extremums
           /\ oob' = (r.extremums > Len(np_high(inp)))
           /\ pc' \in IF r.extremums > Len(np_high(inp))
                      THEN {"fault", "seed"} ELSE {"seed"}
    /\ UNCHANGED <<inp, legs, deviation, offset, zz, zigzags, i, act, run,
                   zzr, dense, shifted, out>>
    /\ UNCHANGED <<prev, ich, tr>>

\* nb_find_zigzags, lines 47-58: the buffers and the seed.  On an empty
\* extremum list idx[-1] is read and zz_idx[0] written outside the arrays:
\* undefined behaviour.
Seed ==
    /\ pc = "seed"
    /\ zigzags' = 0
    /\ i' = Len(hl) - 2
    /\ IF Len(hl) = 0
       THEN /\ zz' = <<>>
            /\ run' = <<>>
            /\ oob' = TRUE
            /\ pc' \in {"fault", "walk"}
       ELSE /\ zz' = SetSwing([k \in 1..Len(hl) |-> ZeroSwing], 0, hl[Len(hl)])
            /\ run' = <<hl[Len(hl)].value>>
            /\ oob' = oob
            /\ pc' = "walk"
    /\ UNCHANGED <<inp, legs, deviation, offset, hl, extremums, act, zzr,
                   dense, shifted, out>>
    /\ UNCHANGED <<prev, ich, tr>>

\* nb_find_zigzags, lines 59-98: one iteration of the reverse walk
Walk ==
    /\ pc = "walk"
    /\ i >= 0
    /\ LET c == At0(hl, i)
           r == WalkStep(zz, zigzags, c, deviation)
           seen == IF c.swing = At0(zz, zigzags).swing
                   THEN [run EXCEPT ![zigzags + 1] =
                             MoreExtreme(c.swing, @, c.value)]
                   ELSE run
       IN  /\ zz' = r.zz
           /\ zigzags' = r.zigzags
           /\ act' = r.kind
           /\ run' = IF r.zigzags > zigzags THEN Append(seen, c.value)
                     ELSE seen
           /\ pc' = IF r.kind = "fault" THEN "fault" ELSE "walk"
    /\ i' = i - 1
    /\ UNCHANGED <<inp, legs, deviation, offset, hl, extremums, oob, zzr,
                   dense, shifted, out>>
    /\ UNCHANGED <<prev, ich, tr>>

\* SliceLen with one entry too many
SliceLenPlusOne(z) == z + 2

\* _n = zigzags + 1
SliceLen(z) == z + 1

\* nb_find_zigzags, lines 100-101: the result, the buffers cut to
\* zigzags + 1 entries
Slice ==
    /\ pc = "walk"
    /\ i < 0
    /\ zzr' = SubSeq(zz, 1, IF SliceLen(zigzags) <= Len(zz)
                            THEN SliceLen(zigzags) ELSE Len(zz))
    /\ pc' = "map"
    /\ UNCHANGED <<inp, legs, deviation, offset, hl, extremums, zz, zigzags,
                   i, act, oob, run, dense, shifted, out>>
    /\ UNCHANGED <<prev, ich, tr>>

\* zigzag, lines 176-208: the Densifier, the offset stage, fillna and the
\* DataFrame returned (the calls explored pass no fill_method)
Finish ==
    /\ pc = "map"
    /\ LET d == nb_map_zigzag(zzr, Len(np_high(inp)))
           sh == IF offset # 0 THEN ShiftAll(d, offset) ELSE d
       IN  /\ dense' = d
           /\ shifted' = sh
           /\ out' = Some(IF inp.fillna # None
                          THEN FillAll(sh, inp.fillna[1]) ELSE sh)
    /\ pc' = "done"
    /\ UNCHANGED <<inp, legs, deviation, offset, hl, extremums, zz, zigzags,
                   i, act, oob, run, zzr>>
    /\ UNCHANGED <<prev, ich, tr>>

Next ==
    \/ Validate
    \/ Scan
    \/ Seed
    \/ Walk
    \/ Slice
    \/ Finish

Spec == Init /\ [][Next]_vars

\* nb_map_zigzag on its own: zigzag at line 176 with any swing list in zzr
MapInit ==
    /\ \E n \in 1..MaxParamN :
          /\ inp = Call([k \in 1..n |-> 3], [k \in 1..n |-> 1], None,
                        Some(2), Some(40), None, None)
          /\ MapInputs(n, zzr)
    /\ pc = "map"
    /\ legs = 2
    /\ deviation = 40
    /\ offset = 0
    /\ hl = <<>>
    /\ extremums = 0
    /\ zz = <<>>
    /\ zigzags = 0
    /\ i = -1
    /\ act = "none"
    /\ oob = FALSE
    /\ run = <<>>
    /\ dense = NoDense
    /\ shifted = NoDense
    /\ out = None
    /\ prev = None
    /\ ich = Idle
    /\ tr = Idle

MapSpec == MapInit /\ [][Finish]_vars

\* zigzag called a second time on the same high, low, legs, deviation,
\* offset and fillna with another close, retrace and last_extreme.  A call
\* keeps nothing from the call before it: every local starts afresh.
CallAgain ==
    /\ pc \in {"done", "none"}
    /\ prev = None
    /\ prev' = Some([inp |-> inp, pc |-> pc, out |-> out])
    /\ \E cl \in CloseArgs(Len(inp.high)), r \in BoolArgs, e \in BoolArgs :
          inp' = [inp EXCEPT !.close = cl, !.retrace = r, !.last_extreme = e]
    /\ pc' = "validate"
    /\ legs' = 0
    /\ deviation' = 0
    /\ offset' = 0
    /\ hl' = <<>>
    /\ extremums' = 0
    /\ zz' = <<>>
    /\ zigzags' = 0
    /\ i' = 0
    /\ act' = "none"
    /\ oob' = FALSE
    /\ run' = <<>>
    /\ zzr' = <<>>
    /\ dense' = NoDense
    /\ shifted' = NoDense
    /\ out' = None
    /\ UNCHANGED <<ich, tr>>

CloseInit ==
    /\ CloseInputs(inp)
    /\ pc = "validate"
    /\ legs = 0
    /\ deviation = 0
    /\ offset = 0
    /\ hl = <<>>
    /\ extremums = 0
    /\ zz = <<>>
    /\ zigzags = 0
    /\ i = 0
    /\ act = "none"
    /\ oob = FALSE
    /\ run = <<>>
    /\ zzr = <<>>
    /\ dense = NoDense
    /\ shifted = NoDense
    /\ out = None
    /\ prev = None
    /\ ich = Idle
    /\ tr = Idle

CloseNext ==
    \/ Next
    \/ CallAgain

CloseSpec == CloseInit /\ [][CloseNext]_vars

\* the last bars a call is repeated with: a high and a low, among them
\* prices outside the levels of the rest of the series and a low of 0
LastBars == {<<3, 1>>, <<4, 2>>, <<9, 0>>}

\* series of up to MaxParamN + 2 bars over the levels, any last bar,
\* 3-bar and 5-bar windows
LastBarInputs(c) ==
    \E n \in 1..(MaxParamN + 2) :
        \E h \in [1..(n - 1) -> HighLevels], l \in [1..(n - 1) -> LowLevels],
           b \in LastBars, lg \in {Some(2), Some(4)} :
            c = Call(Append(h, b[1]), Append(l, b[2]), None, lg,
                     Some(40), None, None)

\* zigzag called a second time on series that differ from the first call's
\* in the last bar only, every other argument the same.  A call keeps
\* nothing from the call before it: every local starts afresh.
CallLastBar ==
    /\ pc \in {"done", "none"}
    /\ prev = None
    /\ prev' = Some([inp |-> inp, pc |-> pc, out |-> out, oob |-> oob])
    /\ \E b \in LastBars :
          inp' = [inp EXCEPT !.high[Len(inp.high)] = b[1],
                             !.low[Len(inp.low)] = b[2]]
    /\ pc' = "validate"
    /\ legs' = 0
    /\ deviation' = 0
    /\ offset' = 0
    /\ hl' = <<>>
    /\ extremums' = 0
    /\ zz' = <<>>
    /\ zigzags' = 0
    /\ i' = 0
    /\ act' = "none"
    /\ oob' = FALSE
    /\ run' = <<>>
    /\ zzr' = <<>>
    /\ dense' = NoDense
    /\ shifted' = NoDense
    /\ out' = None
    /\ UNCHANGED <<ich, tr>>

LastBarInit ==
    /\ LastBarInputs(inp)
    /\ pc = "validate"
    /\ legs = 0
    /\ deviation = 0
    /\ offset = 0
    /\ hl = <<>>
    /\ extremums = 0
    /\ zz = <<>>
    /\ zigzags = 0
    /\ i = 0
    /\ act = "none"
    /\ oob = FALSE
    /\ run = <<>>
    /\ zzr = <<>>
    /\ dense = NoDense
    /\ shifted = NoDense
    /\ out = None
    /\ prev = None
    /\ ich = Idle
    /\ tr = Idle

LastBarNext ==
    \/ Next
    \/ CallLastBar

LastBarSpec == LastBarInit /\ [][LastBarNext]_vars

\* zigzag called a second time with offset = 0, every other argument the
\* same.  A call keeps nothing from the call before it: every local starts
\* afresh.
CallOffsetZero ==
    /\ pc \in {"done", "none", "rejected"}
    /\ prev = None
    /\ prev' = Some([inp |-> inp, pc |-> pc, out |-> out, oob |-> oob])
    /\ inp' = [inp EXCEPT !.offset = Some(0)]
    /\ pc' = "validate"
    /\ legs' = 0
    /\ deviation' = 0
    /\ offset' = 0
    /\ hl' = <<>>
    /\ extremums' = 0
    /\ zz' = <<>>
    /\ zigzags' = 0
    /\ i' = 0
    /\ act' = "none"
    /\ oob' = FALSE
    /\ run' = <<>>
    /\ zzr' = <<>>
    /\ dense' = NoDense
    /\ shifted' = NoDense
    /\ out' = None
    /\ UNCHANGED <<ich, tr>>

OffsetInit ==
    /\ ParamInputs(inp)
    /\ pc = "validate"
    /\ legs = 0
    /\ deviation = 0
    /\ offset = 0
    /\ hl = <<>>
    /\ extremums = 0
    /\ zz = <<>>
    /\ zigzags = 0
    /\ i = 0
    /\ act = "none"
    /\ oob = FALSE
    /\ run = <<>>
    /\ zzr = <<>>
    /\ dense = NoDense
    /\ shifted = NoDense
    /\ out = None
    /\ prev = None
    /\ ich = Idle
    /\ tr = Idle

OffsetNext ==
    \/ Next
    \/ CallOffsetZero

OffsetSpec == OffsetInit /\ [][OffsetNext]_vars

----------------------------------------------------------------------------
(* Properties *)

\* r >= k for a fraction r and an integer k; r = s for two fractions
RatGeInt(r, k) ==
    IF r.den > 0 THEN r.num >= k * r.den ELSE r.num <= k * r.den
RatEq(r, s) == r.num * s.den = s.num * r.den

Returned == pc = "done"
SwingPositions(d) == {k \in 1..Len(d.swing) : d.swing[k] # NaN}
Flat(s) == \A j, k \in 1..Len(s) : s[j] = s[k]
\* the length test of validation fails for the validated legs
Short ==
    \/ Len(inp.high) < legs + 1
    \/ Len(inp.low) < legs + 1
    \/ (inp.close # None /\ Len(inp.close[1]) < legs + 1)

\* C1: after every step of the reverse walk adjacent entries of the swing
\* list zz_swing[0..zigzags] have opposite directions +1 / -1, and in the
\* arrays nb_map_zigzag returns the non-missing swing directions, read in
\* index order, strictly alternate between +1 and -1.
C1_Alternation ==
    /\ (pc \in {"walk", "map"} /\ Len(zz) > 0) =>
          /\ \A k \in 1..(zigzags + 1) : zz[k].swing \in {-1, 1}
          /\ \A k \in 1..zigzags : zz[k].swing = -zz[k + 1].swing
    /\ Returned =>
          \A a, b \in SwingPositions(dense) :
              /\ dense.swing[a] \in {Some(1), Some(-1)}
              /\ (a < b /\ \A m \in (a + 1)..(b - 1) : dense.swing[m] = NaN)
                    => dense.swing[a] # dense.swing[b]

\* C1 witness: a call returned with at least three swings after a walk whose
\* last iteration was an amendment.
C1_Witness ==
    /\ pc = "done"
    /\ act = "amend"
    /\ Cardinality(SwingPositions(dense)) >= 3

\* C2 as stated: in the output every swing except the one at the highest
\* position (the chronologically latest) has deviation >= the threshold, and
\* the latest swing's deviation is 0.
C2_LatestIsZero ==
    Returned =>
        \A p \in SwingPositions(dense) :
            IF \A q \in SwingPositions(dense) : q <= p
            THEN RatEq(dense.dev[p][1], RatZero)
            ELSE RatGeInt(dense.dev[p][1], deviation)

\* C2 amended: in the output every swing except the one at the lowest
\* position (the chronologically earliest, the last one the reverse walk
\* found) has deviation >= the threshold, and the earliest swing's deviation
\* is 0; the same holds of the swing list after every step of the walk.
C2_EarliestIsZero ==
    /\ (pc \in {"walk", "map"} /\ Len(zz) > 0) =>
          /\ \A k \in 1..zigzags : RatGeInt(zz[k].dev, deviation)
          /\ RatEq(zz[zigzags + 1].dev, RatZero)
    /\ Returned =>
          \A p \in SwingPositions(dense) :
              IF \A q \in SwingPositions(dense) : p <= q
              THEN RatEq(dense.dev[p][1], RatZero)
              ELSE RatGeInt(dense.dev[p][1], deviation)

\* C2 witness: a call returned with at least three swings, one of them
\* amended, the latest carrying a deviation above the threshold.
C2_Witness ==
    /\ pc = "done"
    /\ act = "amend"
    /\ Cardinality(SwingPositions(dense)) >= 3
    /\ \E p \in SwingPositions(dense) :
          /\ \A q \in SwingPositions(dense) : q <= p
          /\ ~RatEq(dense.dev[p][1], RatZero)

\* C3 as stated: when the walk has ended without a stray access, every swing
\* of the result, the first two included, is at least as extreme in its own
\* direction as every same-direction candidate the walk visited while that
\* swing was the pending one.
C3_MonotonicExtremity ==
    (pc = "map" /\ ~oob /\ Len(zz) > 0) =>
        \A k \in 1..(zigzags + 1) :
            IF zz[k].swing = 1 THEN zz[k].value >= run[k]
            ELSE zz[k].value <= run[k]

\* C4 as stated: a constant high series and a constant low series that pass
\* validation give an empty extremum list and arrays with no swing at all.
C4_FlatAllMissing ==
    (Flat(inp.high) /\ Flat(inp.low) /\ ~oob) =>
        /\ pc \in {"seed", "walk", "map", "done"} => hl = <<>>
        /\ Returned => SwingPositions(dense) = {}

\* C5 as stated: when the Scanner returned an empty extremum list the run
\* neither dies nor accesses an array outside its bounds.
C5_DegenerateNeverFaults ==
    (pc \notin {"validate", "none", "scan"} /\ hl = <<>> /\ extremums = 0) =>
        /\ pc # "fault"
        /\ ~oob

\* C6: when high, low or a supplied close is shorter than legs + 1, zigzag
\* returns None and neither the Scanner nor the Reducer nor the Densifier
\* has run.
C6_InsufficientData ==
    (pc # "validate" /\ Short) =>
        /\ pc = "none"
        /\ out = None
        /\ hl = <<>> /\ extremums = 0 /\ zz = <<>> /\ zzr = <<>>
        /\ dense = NoDense /\ shifted = NoDense
        /\ ~oob

\* C6 witness: legs = 10 on a series of MaxParamN bars ended with None.
C6_Witness ==
    /\ pc = "none"
    /\ inp.legs = Some(10)
    /\ Len(inp.high) = MaxParamN
    /\ inp.close = None

ShiftedBy(s, d, k) ==
    /\ Len(s) = Len(d)
    /\ \A j \in 1..Len(d) : s[j] = IF j <= k THEN NaN ELSE d[j - k]

\* s is d moved k positions towards the end: the same length, lead at the
\* first k positions, d[j - k] at every later position j
ShiftedWith(s, d, k, lead) ==
    /\ Len(s) = Len(d)
    /\ \A j \in 1..Len(d) : s[j] = IF j <= k THEN lead ELSE d[j - k]

\* the three arrays of a are those of b moved k positions; lead and
\* leadDev are the cells at the first k positions
AllShiftedBy(a, b, k, lead, leadDev) ==
    /\ ShiftedWith(a.swing, b.swing, k, lead)
    /\ ShiftedWith(a.value, b.value, k, lead)
    /\ ShiftedWith(a.dev, b.dev, k, leadDev)

\* a call with a supplied offset k >= 0 and the call with offset 0 on the
\* same other arguments have both ended, neither after a write past the
\* Scanner's buffers (undefined behaviour, no two runs need agree)
OffsetPair ==
    /\ prev # None
    /\ pc \in {"done", "none", "rejected"}
    /\ prev[1].inp.offset # None
    /\ prev[1].inp.offset[1] >= 0
    /\ ~prev[1].oob
    /\ ~oob

\* C7 as stated: zigzag(offset=k), k >= 0, ends as zigzag(offset=0) does,
\* and the three arrays it returns have the length of those zigzag(offset=0)
\* returns, are missing at their first k positions and hold at every later
\* position j what the arrays of zigzag(offset=0) hold at j - k.
C7_OffsetShiftLaw ==
    OffsetPair =>
        /\ prev[1].pc = pc
        /\ pc = "done" =>
              AllShiftedBy(prev[1].out[1], out[1], prev[1].inp.offset[1],
                           NaN, NaN)

\* C7 amended: zigzag(offset=k), k >= 0, ends as zigzag(offset=0) does, and
\* the three arrays it returns have the length of those zigzag(offset=0)
\* returns and hold at every position j > k what the arrays of
\* zigzag(offset=0) hold at j - k; their first k positions are missing
\* when fillna is absent and hold the fillna value when it is supplied.
C7_OffsetShiftLawFilled ==
    OffsetPair =>
        /\ prev[1].pc = pc
        /\ pc = "done" =>
              AllShiftedBy(prev[1].out[1], out[1], prev[1].inp.offset[1],
                           IF inp.fillna = None THEN NaN
                           ELSE Some(inp.fillna[1]),
                           IF inp.fillna = None THEN NaN
                           ELSE Some(Rat(inp.fillna[1], 1)))

\* C7 witness: zigzag(offset=1, fillna=0) returned a swing one position
\* after the position zigzag(offset=0, fillna=0) returns it at, and the
\* fill value 0 at its first position.
C7_Witness ==
    /\ OffsetPair
    /\ pc = "done"
    /\ prev[1].pc = "done"
    /\ prev[1].inp.offset = Some(1)
    /\ inp.fillna = Some(0)
    /\ prev[1].out[1].swing[1] = Some(0)
    /\ \E j \in 1..(Len(out[1].swing) - 1) :
          /\ out[1].swing[j] # Some(0)
          /\ out[1].swing[j + 1] = Some(0)
          /\ prev[1].out[1].swing[j + 1] = out[1].swing[j]

\* C8: for a supplied offset < 0 the offset used is 0 and the arrays after
\* the offset stage are the arrays the Densifier returned, unshifted.
C8_NegativeOffsetClamped ==
    (inp.offset # None /\ inp.offset[1] < 0 /\ pc \notin {"validate", "none"})
        => /\ offset = 0
           /\ pc = "done" => shifted = dense

\* C8 witness: a call with offset -1 returned arrays that carry a swing.
C8_Witness ==
    /\ pc = "done"
    /\ inp.offset = Some(-1)
    /\ SwingPositions(shifted) # {}

InvalidLegs == inp.legs # None /\ inp.legs[1] <= 0
InvalidDeviation == inp.deviation # None /\ inp.deviation[1] <= 0
InvalidOffset == inp.offset # None /\ inp.offset[1] < 0

\* C9 as stated: with a supplied legs <= 0, deviation <= 0 or offset < 0
\* the call ends in a failure before the Scanner runs (a return of None is
\* counted as such a failure here).
C9_InvalidRejected ==
    (InvalidLegs \/ InvalidDeviation \/ InvalidOffset) =>
        pc \in {"validate", "rejected", "none"}

\* C9 amended: a supplied legs <= 0 ends the call in a failure, and so does
\* a supplied deviation <= 0 on series of at least legs + 1 bars (shorter
\* series return None first); the failure comes before the Scanner runs
\* and nothing is returned.  A supplied offset < 0 is no failure: it is
\* replaced by 0 and the call goes on as for any other offset, returning
\* None exactly when a series is shorter than legs + 1.
C9_InvalidRejectedOffsetClamped ==
    pc # "validate" =>
        /\ InvalidLegs => pc = "rejected"
        /\ (~InvalidLegs /\ InvalidDeviation) =>
              pc = IF Short THEN "none" ELSE "rejected"
        /\ pc = "rejected" =>
              /\ InvalidLegs \/ InvalidDeviation
              /\ out = None
              /\ hl = <<>> /\ extremums = 0 /\ zz = <<>> /\ zzr = <<>>
              /\ dense = NoDense /\ shifted = NoDense
              /\ ~oob
        /\ (InvalidOffset /\ ~InvalidLegs /\ ~InvalidDeviation) =>
              /\ pc # "rejected"
              /\ (pc = "none") <=> Short
              /\ pc # "none" => offset = 0

\* C9 witness: a call with legs 2, deviation 40 and offset -1 returned
\* unfilled arrays that carry a swing at the position the Densifier gave it.
C9_Witness ==
    /\ pc = "done"
    /\ inp.legs = Some(2)
    /\ inp.deviation = Some(40)
    /\ inp.offset = Some(-1)
    /\ inp.fillna = None
    /\ offset = 0
    /\ \E j \in SwingPositions(dense) : out[1].swing[j] = dense.swing[j]

\* C10 as stated: the extremum list nb_rolling_hl returns holds, for every
\* centre c in [left, n - right) and no other position, a LOW entry with
\* value low[c] exactly when low[c] <= every low of the window
\* [c - left, c + right), and a HIGH entry with value high[c] exactly when
\* high[c] >= every high of the window; the list is in non-decreasing
\* position order with at most one LOW and one HIGH per position, LOW first.
C10_ScannerContract ==
    pc \notin {"validate", "none", "scan"} =>
        LET n == Len(inp.high)
            left == legs \div 2
            right == left + 1
            centres == left..(n - right - 1)
            window(c) == (c - left)..(c + right - 1)
            isLow(c) == \A j \in window(c) : inp.low[c + 1] <= inp.low[j + 1]
            isHigh(c) == \A j \in window(c) : inp.high[c + 1] >= inp.high[j + 1]
        IN  /\ \A k \in 1..Len(hl) :
                  /\ hl[k].idx \in centres
                  /\ \/ hl[k].swing = -1 /\ isLow(hl[k].idx)
                        /\ hl[k].value = inp.low[hl[k].idx + 1]
                     \/ hl[k].swing = 1 /\ isHigh(hl[k].idx)
                        /\ hl[k].value = inp.high[hl[k].idx + 1]
            /\ \A c \in centres :
                  /\ isLow(c) => \E k \in 1..Len(hl) :
                                     hl[k].idx = c /\ hl[k].swing = -1
                  /\ isHigh(c) => \E k \in 1..Len(hl) :
                                      hl[k].idx = c /\ hl[k].swing = 1
            /\ \A k \in 1..(Len(hl) - 1) :
                  \/ hl[k].idx < hl[k + 1].idx
                  \/ /\ hl[k].idx = hl[k + 1].idx
                     /\ hl[k].swing = -1
                     /\ hl[k + 1].swing = 1

DistinctPositions(s) ==
    \A j, k \in 1..Len(s) : j # k => s[j].idx # s[k].idx

\* C11: for every swing list with distinct positions in [0, n) the three
\* arrays nb_map_zigzag returns have length n, hold at each swing's position
\* that swing's direction, value and deviation, and hold the missing marker
\* at every other position.
C11_DensifierContract ==
    (pc = "done" /\ DistinctPositions(zzr)) =>
        LET n == Len(inp.high)
        IN  /\ Len(dense.swing) = n
            /\ Len(dense.value) = n
            /\ Len(dense.dev) = n
            /\ \A k \in 1..Len(zzr) :
                  /\ dense.swing[zzr[k].idx + 1] = Some(zzr[k].swing)
                  /\ dense.value[zzr[k].idx + 1] = Some(zzr[k].value)
                  /\ dense.dev[zzr[k].idx + 1] = Some(zzr[k].dev)
            /\ \A j \in 1..n :
                  (\A k \in 1..Len(zzr) : zzr[k].idx # j - 1) =>
                      /\ dense.swing[j] = NaN
                      /\ dense.value[j] = NaN
                      /\ dense.dev[j] = NaN

\* C11 witness: nb_map_zigzag returned for MaxSwings swings at distinct
\* positions that are not in increasing order, one of them with value 0,
\* on a series with a position left over.
C11_Witness ==
    /\ pc = "done"
    /\ Len(zzr) = MaxSwings
    /\ DistinctPositions(zzr)
    /\ zzr[1].idx > zzr[2].idx
    /\ \E k \in 1..Len(zzr) : zzr[k].value = 0
    /\ \E j \in 1..Len(dense.swing) : dense.swing[j] = NaN

\* C12 as stated: the positions of the swings nb_find_zigzags returns are
\* strictly increasing from the first entry to the last (oldest first).
C12_OldestFirst ==
    \A k \in 1..(Len(zzr) - 1) : zzr[k].idx < zzr[k + 1].idx

\* C12 amended: the positions of the swings nb_find_zigzags returns are
\* strictly decreasing from the first entry to the last (newest first: the
\* seed, the latest extremum, is entry 0), and so are the positions of
\* zz_idx[0..zigzags] after every step of the walk.
C12_NewestFirst ==
    /\ \A k \in 1..(Len(zzr) - 1) : zzr[k].idx > zzr[k + 1].idx
    /\ (pc \in {"walk", "map"} /\ Len(zz) > 0) =>
          \A k \in 1..zigzags : zz[k].idx > zz[k + 1].idx

\* C12 witness: nb_find_zigzags returned at least three swings, the first
\* of them the last extremum of the Scanner's list.
C12_Witness ==
    /\ pc = "map"
    /\ Len(zzr) >= 3
    /\ zzr[1].idx = hl[Len(hl)].idx

\* the positions p < q of two swings of d with no swing between them
AdjacentSwings(d, p, q) ==
    /\ p \in SwingPositions(d)
    /\ q \in SwingPositions(d)
    /\ p < q
    /\ \A m \in (p + 1)..(q - 1) : d.swing[m] = NaN

\* |a - b|
AbsDiff(a, b) == IF a >= b THEN a - b ELSE b - a

\* C15 as stated: the deviation reported at a swing's position is the
\* percentage move between that swing and the chronologically next swing
\* (relative to the value of either of the two).
C15_StampedOnEarlier ==
    Returned =>
        \A p, q \in SwingPositions(dense) :
            AdjacentSwings(dense, p, q) =>
                LET move == 100 * AbsDiff(dense.value[p][1], dense.value[q][1])
                IN  \/ RatEq(dense.dev[p][1], Rat(move, dense.value[p][1]))
                    \/ RatEq(dense.dev[p][1], Rat(move, dense.value[q][1]))

\* C15 amended: the deviation reported at a swing's position is the
\* percentage move between that swing and the chronologically previous
\* (earlier) swing, as a percentage of the earlier swing's value: the
\* deviation is stamped on the later swing of each consecutive pair, and the
\* earliest swing, which has no earlier one, reports 0.
C15_StampedOnLater ==
    Returned =>
        /\ \A p, q \in SwingPositions(dense) :
              AdjacentSwings(dense, p, q) =>
                  RatEq(dense.dev[q][1],
                        Rat(100 * AbsDiff(dense.value[p][1], dense.value[q][1]),
                            dense.value[p][1]))
        /\ \A p \in SwingPositions(dense) :
              (\A q \in SwingPositions(dense) : p <= q) =>
                  RatEq(dense.dev[p][1], RatZero)

\* C15 witness: a call returned at least four swings, two of them with
\* different deviations.
C15_Witness ==
    /\ pc = "done"
    /\ Cardinality(SwingPositions(dense)) >= 4
    /\ \E p, q \in SwingPositions(dense) :
          /\ ~RatEq(dense.dev[p][1], RatZero)
          /\ ~RatEq(dense.dev[q][1], RatZero)
          /\ ~RatEq(dense.dev[p][1], dense.dev[q][1])

\* C13 as stated: for high=[1,3,2,5,1,6,2], low=[0,2,1,3,0,4,1], legs=1,
\* deviation=10 every extremum the Scanner lists is an extreme of the 3-bar
\* window centred on it, the run neither dies nor accesses an array outside
\* its bounds, and the swings returned alternate in direction and include a
\* HIGH swing at position 5 with value 6.
C13_Scenario ==
    ScenarioInputs(inp) =>
        /\ pc # "fault"
        /\ ~oob
        /\ \A k \in 1..Len(hl) :
              \A j \in {hl[k].idx - 1, hl[k].idx + 1} :
                  j \in 0..(Len(inp.high) - 1) =>
                      IF hl[k].swing = 1
                      THEN hl[k].value >= At0(inp.high, j)
                      ELSE hl[k].value <= At0(inp.low, j)
        /\ Returned =>
              /\ \A p, q \in SwingPositions(dense) :
                    AdjacentSwings(dense, p, q) =>
                        dense.swing[p] # dense.swing[q]
              /\ dense.swing[6] = Some(1)
              /\ dense.value[6] = Some(6)

\* C14: a call of zigzag that differs from the call before it only in a
\* close series that passes validation (or is absent) and in retrace and
\* last_extreme ends as that call did: None when it returned None, and
\* otherwise the same three arrays.
C14_CloseUnused ==
    (prev # None /\ pc \in {"done", "none"}) =>
        /\ pc = prev[1].pc
        /\ out = prev[1].out

\* C14 witness: two calls with two different supplied close series, and
\* different retrace and last_extreme, both returned arrays with a swing.
C14_Witness ==
    /\ prev # None
    /\ pc = "done"
    /\ inp.close # None
    /\ prev[1].inp.close # None
    /\ prev[1].inp.close # inp.close
    /\ prev[1].inp.retrace # inp.retrace
    /\ prev[1].inp.last_extreme # inp.last_extreme
    /\ SwingPositions(dense) # {}
    /\ Len(zzr) >= 2

\* the walk is about to run an iteration, on candidate Candidate, while
\* Pending is the pending swing
Walking == pc = "walk" /\ i >= 0 /\ Len(zz) > 0
Candidate == At0(hl, i)
Pending == At0(zz, zigzags)
SameDirection == Candidate.swing = Pending.swing
StrictlyMoreExtreme ==
    IF Pending.swing = -1 THEN Candidate.value < Pending.value
    ELSE Candidate.value > Pending.value

\* the step amends: the pending swing's position and value become the
\* candidate's, the deviation of the swing finalized before it becomes the
\* move between that swing and the candidate as a percentage of the
\* candidate's value, and nothing else of the list changes
Amends ==
    /\ zigzags' = zigzags
    /\ zigzags >= 1
    /\ Len(zz') = Len(zz)
    /\ zz'[zigzags + 1].idx = Candidate.idx
    /\ zz'[zigzags + 1].swing = Candidate.swing
    /\ zz'[zigzags + 1].value = Candidate.value
    /\ zz'[zigzags + 1].dev = zz[zigzags + 1].dev
    /\ RatEq(zz'[zigzags].dev,
             Rat(100 * AbsDiff(zz[zigzags].value, Candidate.value),
                 Candidate.value))
    /\ zz'[zigzags].idx = zz[zigzags].idx
    /\ zz'[zigzags].value = zz[zigzags].value
    /\ \A k \in 1..Len(zz) : k \notin {zigzags, zigzags + 1} => zz'[k] = zz[k]

\* C18 as stated: a walk step on a candidate of the pending swing's
\* direction, strictly more extreme than it, with at least one swing
\* finalized (zigzags >= 1), amends.
C18_AmendWithOneFinalized ==
    [][(Walking /\ SameDirection /\ StrictlyMoreExtreme /\ zigzags >= 1)
          => Amends]_vars

\* C18 amended: a walk step on a candidate of the pending swing's direction,
\* strictly more extreme than it, with at least two swings finalized
\* (zigzags > 1), overwrites the pending swing's position and value with
\* the candidate's, recomputes the deviation of the swing finalized before
\* it against the candidate, and adds no list entry.
C18_AmendWithTwoFinalized ==
    [][(Walking /\ SameDirection /\ StrictlyMoreExtreme /\ zigzags > 1)
          => Amends]_vars

\* C18 witness: the walk has just amended the pending swing of a list with
\* at least two finalized swings, changing the deviation finalized before.
C18_Witness ==
    /\ pc = "walk"
    /\ act = "amend"
    /\ zigzags >= 2
    /\ zz[zigzags + 1].idx = At0(hl, i + 1).idx
    /\ zz[zigzags + 1].value = At0(hl, i + 1).value

\* C19: a walk step on a candidate of the pending swing's direction while
\* zigzags <= 1 leaves the pending swing, the finalized swings, every stored
\* deviation and the cursor unchanged, for a HIGH and for a LOW pending
\* swing alike.
C19_AmendmentGate ==
    [][(Walking /\ SameDirection /\ zigzags <= 1)
          => (zz' = zz /\ zigzags' = zigzags)]_vars

\* C19 witness: with one swing finalized the walk has just left a pending
\* swing alone on a strictly more extreme candidate of its direction.
C19_Witness ==
    /\ pc = "walk"
    /\ act = "ignore"
    /\ zigzags = 1
    /\ At0(hl, i + 1).swing = Pending.swing
    /\ IF Pending.swing = -1 THEN At0(hl, i + 1).value < Pending.value
       ELSE At0(hl, i + 1).value > Pending.value

\* the step commits with current_dev = n / Candidate.value: the pending
\* swing is finalized with deviation 100 * current_dev and the candidate is
\* the new pending swing
Commits(n) ==
    /\ zigzags' = zigzags + 1
    /\ Len(zz') = Len(zz)
    /\ zz'[zigzags + 1].idx = Pending.idx
    /\ zz'[zigzags + 1].swing = Pending.swing
    /\ zz'[zigzags + 1].value = Pending.value
    /\ RatEq(zz'[zigzags + 1].dev, Rat(100 * n, Candidate.value))
    /\ zz'[zigzags + 2].idx = Candidate.idx
    /\ zz'[zigzags + 2].swing = Candidate.swing
    /\ zz'[zigzags + 2].value = Candidate.value
    /\ RatEq(zz'[zigzags + 2].dev, RatZero)
    /\ \A k \in 1..zigzags : zz'[k] = zz[k]

\* the move from the LOW to the HIGH of the pair candidate / pending swing
SignedMove ==
    IF Pending.swing = -1 THEN Candidate.value - Pending.value
    ELSE Pending.value - Candidate.value

\* C20 as stated: a walk step on a candidate of the direction opposite to
\* the pending swing's commits exactly when |c.value - pending.value| /
\* c.value exceeds deviation / 100 and the candidate is not at the pending
\* position, and changes nothing otherwise.
C20_CommitAbsolute ==
    [][(Walking /\ ~SameDirection) =>
          LET n == AbsDiff(Candidate.value, Pending.value)
          IN  IF 100 * n > deviation * Candidate.value
                 /\ Candidate.idx # Pending.idx
              THEN Commits(n)
              ELSE zz' = zz /\ zigzags' = zigzags]_vars

\* C20 amended: a walk step on a candidate of the direction opposite to the
\* pending swing's commits exactly when the signed move from the LOW to the
\* HIGH of the two, (HIGH value - LOW value) / c.value, exceeds
\* deviation / 100 and the candidate is not at the pending position, and
\* changes nothing otherwise: a HIGH candidate below a pending LOW, or a LOW
\* candidate above a pending HIGH, is discarded.
C20_CommitSigned ==
    [][(Walking /\ ~SameDirection) =>
          IF 100 * SignedMove > deviation * Candidate.value
             /\ Candidate.idx # Pending.idx
          THEN Commits(SignedMove)
          ELSE zz' = zz /\ zigzags' = zigzags]_vars

\* C20 witness: the walk has just discarded a HIGH candidate that lies
\* below the pending LOW by more than the threshold, after a commit.
C20_Witness ==
    /\ pc = "walk"
    /\ act = "discard"
    /\ zigzags >= 1
    /\ Pending.swing = -1
    /\ At0(hl, i + 1).swing = 1
    /\ At0(hl, i + 1).value < Pending.value
    /\ 100 * (Pending.value - At0(hl, i + 1).value)
           > deviation * At0(hl, i + 1).value

\* C21 as stated: a walk step on a candidate of the pending swing's
\* direction that is not strictly more extreme than it takes the commit
\* test: when |c.value - pending.value| / c.value exceeds deviation / 100
\* the pending swing is finalized and the candidate is the new pending
\* swing, and nothing changes otherwise.
C21_SameDirectionCommits ==
    [][(Walking /\ SameDirection /\ ~StrictlyMoreExtreme) =>
          LET n == AbsDiff(Candidate.value, Pending.value)
          IN  IF 100 * n > deviation * Candidate.value
              THEN Commits(n)
              ELSE zz' = zz /\ zigzags' = zigzags]_vars

\* C21 amended: a walk step on a candidate of the pending swing's direction
\* that is not strictly more extreme than it changes nothing, whatever its
\* distance from the pending swing: the list, the stored deviations and the
\* cursor stay as they were, and the commit test is made on candidates of
\* the opposite direction only.
C21_SameDirectionIgnored ==
    [][(Walking /\ SameDirection /\ ~StrictlyMoreExtreme) =>
          (zz' = zz /\ zigzags' = zigzags)]_vars

\* C21 witness: with two swings finalized the walk has just passed over a
\* candidate of the pending swing's direction, not more extreme than it,
\* whose distance from it exceeds the threshold.
C21_Witness ==
    /\ pc = "walk"
    /\ act = "ignore"
    /\ zigzags >= 2
    /\ At0(hl, i + 1).swing = Pending.swing
    /\ IF Pending.swing = -1 THEN At0(hl, i + 1).value >= Pending.value
       ELSE At0(hl, i + 1).value <= Pending.value
    /\ 100 * AbsDiff(At0(hl, i + 1).value, Pending.value)
           > deviation * At0(hl, i + 1).value

\* no two entries of zz_idx[0..zigzags] hold the same position, and the
\* positions fall from each entry to the next
PositionsFall ==
    (pc \in {"walk", "map"} /\ Len(zz) > 0) =>
        /\ \A j, k \in 1..(zigzags + 1) : j < k => zz[j].idx > zz[k].idx
        /\ DistinctPositions(SubSeq(zz, 1, zigzags + 1))

\* every swing of the list returned has a cell of its own in the arrays of
\* nb_map_zigzag: no write of lines 112-114 lands on an earlier one
NoOverwrite ==
    pc = "done" =>
        /\ Cardinality(SwingPositions(dense)) = Len(zzr)
        /\ \A k \in 1..Len(zzr) :
              /\ dense.swing[zzr[k].idx + 1] = Some(zzr[k].swing)
              /\ dense.value[zzr[k].idx + 1] = Some(zzr[k].value)

\* C22: after every step of the reverse walk the positions of
\* zz_idx[0..zigzags] are strictly decreasing in scan order, so no two
\* swings share a position and nb_map_zigzag writes each swing to a cell of
\* its own; and a walk step on a candidate at the position of the current
\* (pending) swing commits nothing, whatever its deviation.
C22_DuplicateGuard ==
    /\ [](PositionsFall /\ NoOverwrite)
    /\ [][(Walking /\ Candidate.idx = Pending.idx) =>
             (zz' = zz /\ zigzags' = zigzags)]_vars

\* C22 witness: with a swing finalized, the walk has just skipped a
\* candidate at the pending swing's position, of the opposite direction,
\* whose deviation exceeds the threshold.
C22_Witness ==
    /\ pc = "walk"
    /\ act = "dup"
    /\ zigzags >= 1
    /\ At0(hl, i + 1).idx = Pending.idx
    /\ At0(hl, i + 1).swing = -Pending.swing
    /\ 100 * AbsDiff(At0(hl, i + 1).value, Pending.value)
           > deviation * At0(hl, i + 1).value

\* 100 * (HIGH value - LOW value) / zz_value[k + 1] for the swings at the
\* 1-based entries k and k + 1 of the list b
PairDev(b, k) ==
    Rat(100 * (IF b[k].swing = 1 THEN b[k].value - b[k + 1].value
               ELSE b[k + 1].value - b[k].value),
        b[k + 1].value)

\* C23: after every step of the reverse walk the deviation stored with
\* every finalized swing (every entry before the pending one) is
\* 100 * (HIGH value - LOW value) / value of the next entry in scan order,
\* computed from the values the two entries hold now: an amendment of the
\* pending swing leaves no stale deviation on the swing before it.
C23_DeviationConsistency ==
    (pc \in {"walk", "map"} /\ Len(zz) > 0) =>
        \A k \in 1..zigzags :
            /\ zz[k + 1].value # 0
            /\ RatEq(zz[k].dev, PairDev(zz, k))

\* C23 witness: the walk ended on an amendment of the pending swing of a
\* list with at least two finalized swings, the deviation of the swing
\* before it being the move to the amended value.
C23_Witness ==
    /\ pc = "map"
    /\ act = "amend"
    /\ zigzags >= 2
    /\ zz[zigzags + 1].idx = hl[1].idx
    /\ zz[zigzags + 1].value = hl[1].value
    /\ ~RatEq(zz[zigzags].dev, RatZero)
    /\ ~RatEq(zz[zigzags].dev, zz[zigzags - 1].dev)

\* C24: when the reverse walk has ended, the last entry of the list
\* returned (the swing still pending, at the lowest position) carries
\* deviation 0, amended or not, every entry before it carries the non-zero
\* deviation a commit stamped (above the threshold), and the arrays
\* returned by nb_map_zigzag report the same at the swings' positions.
C24_FinalPending ==
    (pc \in {"map", "done"} /\ Len(zzr) > 0) =>
        LET last == zzr[Len(zzr)]
        IN  /\ Len(zzr) = zigzags + 1
            /\ RatEq(last.dev, RatZero)
            /\ \A k \in 1..(Len(zzr) - 1) :
                  /\ zzr[k].idx > last.idx
                  /\ ~RatEq(zzr[k].dev, RatZero)
                  /\ RatGeInt(zzr[k].dev, deviation)
            /\ pc = "done" =>
                  /\ dense.dev[last.idx + 1] = Some(last.dev)
                  /\ \A k \in 1..(Len(zzr) - 1) :
                        dense.dev[zzr[k].idx + 1] = Some(zzr[k].dev)

\* C24 witness: a call returned at least three swings after a walk that
\* ended on an amendment of the pending swing, which is the first extremum
\* of the Scanner's list and reports deviation 0.
C24_Witness ==
    /\ pc = "done"
    /\ act = "amend"
    /\ Len(zzr) >= 3
    /\ zzr[Len(zzr)].idx = hl[1].idx
    /\ zzr[Len(zzr)].value = hl[1].value
    /\ dense.dev[hl[1].idx + 1] = Some(RatZero)

\* C25: for every non-empty extremum list of size m the buffers of
\* nb_find_zigzags have m slots and after every step of the walk the cursor
\* satisfies 0 <= zigzags <= m - 1 (it is at most the number of candidates
\* visited), an amendment or a commit has written zz_dev[zigzags - 1] at a
\* position >= 0, and the list returned has between 1 and m swings.
C25_ReducerBufferBound ==
    (pc \in {"walk", "map", "done"} /\ Len(hl) > 0) =>
        /\ Len(zz) = Len(hl)
        /\ 0 <= zigzags
        /\ zigzags <= Len(hl) - 1
        /\ zigzags <= Len(hl) - 2 - i
        /\ act \in {"amend", "commit"} => zigzags - 1 >= 0
        /\ pc \in {"map", "done"} =>
              /\ 1 <= Len(zzr)
              /\ Len(zzr) <= Len(hl)
              /\ Len(zzr) = zigzags + 1

\* C25 witness: the walk ended with the cursor on the last slot of the
\* buffers: every one of at least three extrema became a swing.
C25_Witness ==
    /\ pc = "map"
    /\ Len(hl) >= 3
    /\ zigzags = Len(hl) - 1
    /\ Len(zzr) = Len(hl)
    /\ ~oob

\* C26 as stated: for every series of n bars and every window size
\* legs >= 1 the write cursor of nb_rolling_hl never exceeds n, the size of
\* its buffers idx, swing and value: no extremum is written outside them.
C26_ScannerBufferBound ==
    pc \notin {"validate", "none", "scan"} =>
        /\ extremums <= Len(np_high(inp))
        /\ Len(hl) = extremums

\* C27: a call of zigzag on series that differ from those of the call
\* before it in high[n - 1] and low[n - 1] only ends as that call did (None
\* when it returned None, otherwise the same three arrays), and no swing is
\* reported at a position outside [left, n - right), left = floor(legs / 2),
\* right = left + 1.  (A first call that accessed an array outside its
\* bounds, which is undefined behaviour, is left out of the comparison.)
C27_LastBarUnread ==
    /\ (prev # None /\ ~prev[1].oob /\ pc \in {"done", "none", "fault"}) =>
          /\ pc = prev[1].pc
          /\ out = prev[1].out
    /\ pc = "done" =>
          \A p \in SwingPositions(dense) :
              /\ Left(legs) <= p - 1
              /\ p - 1 < Len(inp.high) - Right(legs)

\* C27 witness: two calls on series whose last bars differ in the high and
\* in the low both returned the same arrays, with at least two swings.
C27_Witness ==
    /\ prev # None
    /\ pc = "done"
    /\ inp.high[Len(inp.high)] # prev[1].inp.high[Len(inp.high)]
    /\ inp.low[Len(inp.low)] # prev[1].inp.low[Len(inp.low)]
    /\ SubSeq(inp.high, 1, Len(inp.high) - 1)
          = SubSeq(prev[1].inp.high, 1, Len(inp.high) - 1)
    /\ Len(zzr) >= 2
    /\ out = prev[1].out
    /\ out # None

----------------------------------------------------------------------------
(* pandas_ta_tnt.overlap.ichimoku *)

SetMax(S) == CHOOSE x \in S : \A y \in S : x >= y
SetMin(S) == CHOOSE x \in S : \A y \in S : x <= y

\* midprice(high, low, length): half the sum of the highest high and the
\* lowest low of the last length bars, missing on the first length - 1 bars
midprice(high, low, length) ==
    [k \in 1..Len(high) |->
        IF k < length THEN NaN
        ELSE Some(Rat(SetMax({high[j] : j \in (k - length + 1)..k})
                      + SetMin({low[j] : j \in (k - length + 1)..k}), 2))]

\* 0.5 * (a + b), cell by cell
HalfSum(a, b) ==
    [k \in 1..Len(a) |->
        IF a[k] = NaN \/ b[k] = NaN THEN NaN
        ELSE Some(Rat(a[k][1].num * b[k][1].den + b[k][1].num * a[k][1].den,
                      2 * a[k][1].den * b[k][1].den))]

\* a series of numbers as cells
Cells(s) == [k \in 1..Len(s) |-> Some(Rat(s[k], 1))]

\* s[-k:], the last k cells of s
LastCells(s, k) == SubSeq(s, Len(s) - k + 1, Len(s))

\* Series.fillna(v) on cells that hold fractions
RatFill(s, v) ==
    [k \in 1..Len(s) |-> IF s[k] = NaN THEN Some(Rat(v, 1)) ELSE s[k]]

\* max(tenkan, kijun, senkou)
Max3(a, b, c) == SetMax({a, b, c})

IchCall(h, l, c, t, k, s, ic, o, la, f) ==
    [high |-> h, low |-> l, close |-> c, tenkan |-> t, kijun |-> k,
     senkou |-> s, include_chikou |-> ic, offset |-> o, lookahead |-> la,
     fillna |-> f]

\* short series under every combination of the other arguments; the close
\* is 1, 2, 3, ... so that a shift shows
IchInputs(v) ==
    \E n \in 1..MaxParamN :
        \E h \in [1..n -> HighLevels],
           t \in {None, Some(0), Some(1), Some(2)},
           k \in {Some(1), Some(2)},
           ic \in BOOLEAN,
           o \in {None, Some(-1), Some(0), Some(1), Some(2)},
           la \in BoolArgs,
           f \in {None, Some(0)} :
            v = [pc |-> "validate",
                 args |-> IchCall(h, [j \in 1..n |-> 1], [j \in 1..n |-> j],
                                  t, k, Some(2), ic, o, la, f)]

\* the five lines; chikou_span may be None
Lines(ts, ks, sa, sb, cs) ==
    [tenkan_sen |-> ts, kijun_sen |-> ks, span_a |-> sa, span_b |-> sb,
     chikou_span |-> cs]

\* ichimoku, lines 40-55: validation
IchValidate ==
    /\ ich.pc = "validate"
    /\ LET a == ich.args
           t == v_pos_default(a.tenkan, DefaultTenkan)
           k == v_pos_default(a.kijun, DefaultKijun)
           s == v_pos_default(a.senkou, DefaultSenkou)
       IN  IF t = Rejected \/ k = Rejected \/ s = Rejected
           THEN ich' = [pc |-> "rejected", args |-> a]
           ELSE LET tenkan == t[1]
                    kijun == k[1]
                    senkou == s[1]
                    _length == Max3(tenkan, kijun, senkou)
                    high == v_series(Some(a.high), _length)
                    low == v_series(Some(a.low), _length)
                    close == v_series(Some(a.close), _length)
                    do_lookahead ==
                        IF a.lookahead # None THEN a.lookahead[1] ELSE TRUE
                IN  IF high = None \/ low = None \/ close = None
                    THEN ich' = [pc |-> "none", args |-> a]
                    ELSE ich' = [pc |-> "calculate", args |-> a,
                                 tenkan |-> tenkan, kijun |-> kijun,
                                 senkou |-> senkou,
                                 offset |-> ClampOffset(v_offset(a.offset)),
                                 do_lookahead |-> do_lookahead,
                                 include_chikou |->
                                     IF do_lookahead THEN a.include_chikou
                                     ELSE FALSE]
    /\ UNCHANGED <<zvars, prev, tr>>

\* ichimoku, lines 57-70: the five lines
IchCalculate ==
    /\ ich.pc = "calculate"
    /\ LET a == ich.args
           tenkan_sen == midprice(a.high, a.low, ich.tenkan)
           kijun_sen == midprice(a.high, a.low, ich.kijun)
           span_a == HalfSum(tenkan_sen, kijun_sen)
           span_b == midprice(a.high, a.low, ich.senkou)
           chikou_span == SeriesShift(Cells(a.close), -ich.kijun + 1)
       IN  ich' = [ich EXCEPT !.pc = "offset"] @@
                  [calc |->
                     IF ich.do_lookahead
                     THEN Lines(tenkan_sen, kijun_sen,
                                SeriesShift(span_a, ich.kijun - 1),
                                SeriesShift(span_b, ich.kijun - 1),
                                Some(chikou_span))
                     ELSE Lines(tenkan_sen, kijun_sen, span_a, span_b, None)]
    /\ UNCHANGED <<zvars, prev, tr>>

\* ichimoku, lines 72-82: the offset stage
IchOffset ==
    /\ ich.pc = "offset"
    /\ LET c == ich.calc
           k == ich.offset
       IN  ich' = [ich EXCEPT !.pc = "return"] @@
                  [shifted |->
                     IF k = 0 THEN c
                     ELSE IF ich.do_lookahead
                     THEN Lines(SeriesShift(c.tenkan_sen, k),
                                SeriesShift(c.kijun_sen, k),
                                SeriesShift(c.span_a, k),
                                SeriesShift(c.span_b, k),
                                IF c.chikou_span # None
                                THEN Some(SeriesShift(c.chikou_span[1], k))
                                ELSE None)
                     ELSE Lines(SeriesShift(SeriesShift(c.tenkan_sen, k), k),
                                SeriesShift(SeriesShift(c.kijun_sen, k), k),
                                c.span_a, c.span_b, c.chikou_span)]
    /\ UNCHANGED <<zvars, prev, tr>>

\* ichimoku, lines 84-143: fillna, the DataFrame of the lines and the
\* DataFrame of the forward spans
IchReturn ==
    /\ ich.pc = "return"
    /\ LET s == ich.shifted
           fill(x) == IF ich.args.fillna # None
                      THEN RatFill(x, ich.args.fillna[1]) ELSE x
           span_a == IF ich.do_lookahead THEN fill(s.span_a) ELSE s.span_a
           span_b == IF ich.do_lookahead THEN fill(s.span_b) ELSE s.span_b
           chikou_span == IF ich.do_lookahead /\ s.chikou_span # None
                          THEN Some(fill(s.chikou_span[1])) ELSE s.chikou_span
           ichimokudf ==
               Lines(fill(s.tenkan_sen), fill(s.kijun_sen), span_a, span_b,
                     IF ich.do_lookahead /\ ich.include_chikou
                     THEN chikou_span ELSE None)
           spandf ==
               IF ich.do_lookahead
               THEN Some([span_a |->
                              SeriesShift(LastCells(span_a, ich.kijun), -1),
                          span_b |->
                              SeriesShift(LastCells(span_b, ich.kijun), -1)])
               ELSE None
       IN  ich' = [ich EXCEPT !.pc = "done"] @@
                  [ichimokudf |-> ichimokudf, spandf |-> spandf]
    /\ UNCHANGED <<zvars, prev, tr>>

\* no call of zigzag is under way
ZigzagIdle ==
    /\ inp = Idle
    /\ pc = "idle"
    /\ legs = 0
    /\ deviation = 0
    /\ offset = 0
    /\ hl = <<>>
    /\ extremums = 0
    /\ zz = <<>>
    /\ zigzags = 0
    /\ i = 0
    /\ act = "none"
    /\ oob = FALSE
    /\ run = <<>>
    /\ zzr = <<>>
    /\ dense = NoDense
    /\ shifted = NoDense
    /\ out = None
    /\ prev = None

IchInit ==
    /\ IchInputs(ich)
    /\ ZigzagIdle
    /\ tr = Idle

IchNext ==
    \/ IchValidate
    \/ IchCalculate
    \/ IchOffset
    \/ IchReturn

IchSpec == IchInit /\ [][IchNext]_vars

\* the lines of the DataFrame ichimoku returns
IchColumns ==
    {"tenkan_sen", "kijun_sen", "span_a", "span_b"}
        \cup (IF ich.ichimokudf.chikou_span # None THEN {"chikou_span"} ELSE {})

\* a line of a set of lines as a series of cells
LineOf(ls, name) ==
    IF name = "chikou_span" THEN ls.chikou_span[1] ELSE ls[name]

\* C16 as stated: for a supplied offset k >= 0, with lookahead True or
\* False, each line of the DataFrame ichimoku returns is, after the offset
\* stage, the line before that stage (the result for offset 0) moved k
\* positions towards the end.
C16_IchimokuOffset ==
    (ich.pc = "done" /\ ich.args.offset # None /\ ich.args.offset[1] >= 0) =>
        \A name \in IchColumns :
            ShiftedBy(LineOf(ich.shifted, name), LineOf(ich.calc, name),
                      ich.args.offset[1])

----------------------------------------------------------------------------
(* pandas_ta_tnt.transform.cube and pandas_ta_tnt.transform.ifisher *)

\* v_lowerbound(var, bound, default, strict=False): var when it is a number
\* >= bound, else default
v_lowerbound(var, bound, default) ==
    IF var # None /\ var[1] >= bound THEN var[1] ELSE default

\* v_scalar(var, default): var when it is a number, else default
v_scalar(var, default) == IF var # None THEN var[1] ELSE default

\* v_int(var, default, ne): var when it is an integer other than ne, else
\* default
v_int(var, default, ne) ==
    IF var # None /\ var[1] # ne THEN var[1] ELSE default

\* v_float(var, default, ne): var when it is a number other than ne, else
\* default
v_float(var, default, ne) == IF var # ne THEN var ELSE default

Abs(x) == IF x >= 0 THEN x ELSE -x

RECURSIVE Pow(_, _)
Pow(x, p) == IF p <= 0 THEN 1 ELSE x * Pow(x, p - 1)

\* (exp(y) - 1) / (exp(y) + 1) of a fraction y, kept as a term: the
\* function is strictly increasing, so two terms are equal exactly when
\* their arguments are
InvFisher(y) == [inv_fisher_of |-> y]

\* remap(close, fmin, fmax, tmin=-1, tmax=1), lines 36-54 of remap.py: the
\* cells tmin + (trange / frange) * (close - fmin), None when frange <= 0
remap(close, fmin_arg, fmax_arg) ==
    LET fmin == v_float(fmin_arg, 0, 0)
        fmax == v_float(fmax_arg, 100, 0)
        tmin == v_float(-1, -1, 0)
        tmax == v_float(1, 1, 0)
        frange == fmax - fmin
        trange == tmax - tmin
    IN  IF frange <= 0 \/ trange <= 0 THEN None
        ELSE Some([k \in 1..Len(close) |->
                      Rat(tmin * frange + trange * (close[k] - fmin), frange)])

TrCall(fn, c, p, so, o, nz, f) ==
    [fn |-> fn, close |-> c, pwr |-> p, amp |-> p, signal_offset |-> so,
     offset |-> o, normalize |-> nz, fillna |-> f]

CloseLevels == {-1, 0, 2}

\* short close series under every combination of the other arguments (the
\* exponent and the amplification share one argument, normalize is cube's)
TrInputs(v) ==
    \E n \in 1..MaxParamN :
        \E c \in [1..n -> CloseLevels],
           fn \in {"cube", "ifisher"},
           p \in {None, Some(2), Some(4)},
           so \in {None, Some(0), Some(1), Some(2)},
           o \in {None, Some(-1), Some(1)},
           nz \in BOOLEAN,
           f \in {None, Some(0)} :
            /\ (fn = "ifisher" => nz)
            /\ v = [pc |-> "validate", args |-> TrCall(fn, c, p, so, o, nz, f)]

AllNaN(s) == \A k \in 1..Len(s) : s[k] = NaN

\* cube, lines 38-53: validation
CubeValidate ==
    /\ tr.pc = "validate"
    /\ tr.args.fn = "cube"
    /\ LET a == tr.args
           close == v_series(Some(a.close), 0)
           signal_offset == IF a.signal_offset # None
                            THEN a.signal_offset[1] ELSE -1
       IN  IF close = None
           THEN tr' = [pc |-> "none", args |-> a]
           ELSE tr' = [pc |-> "calculate", args |-> a,
                       pwr |-> v_lowerbound(a.pwr, DefaultPwr, DefaultPwr),
                       signal_offset |-> ClampOffset(signal_offset),
                       offset |-> ClampOffset(v_offset(a.offset))]
    /\ UNCHANGED <<zvars, prev, ich>>

\* cube, lines 55-69: the scaled close raised to the power
CubeCalculate ==
    /\ tr.pc = "calculate"
    /\ tr.args.fn = "cube"
    /\ LET close == tr.args.close
           top == SetMax({Abs(close[k]) : k \in 1..Len(close)})
           scale_factor == IF top = 0 THEN 1 ELSE top
           result ==
               [k \in 1..Len(close) |->
                   Some(IF tr.args.normalize
                        THEN Rat(Pow(close[k], tr.pwr),
                                 Pow(scale_factor, tr.pwr))
                        ELSE Rat(Pow(close[k], tr.pwr), 1))]
       IN  tr' = [tr EXCEPT !.pc = "shift"] @@ [result |-> result]
    /\ UNCHANGED <<zvars, prev, ich>>

\* the two columns after "if offset != 0" and "if signal_offset != 0"
ShiftBoth(result, o, so) ==
    LET byOffset == IF o # 0 THEN SeriesShift(result, o) ELSE result
        bySignal == IF so # 0 THEN SeriesShift(byOffset, so) ELSE byOffset
    IN  [main |-> bySignal, signal |-> bySignal]

\* cube, lines 71-77: the shifts
CubeShift ==
    /\ tr.pc = "shift"
    /\ tr.args.fn = "cube"
    /\ tr' = [tr EXCEPT !.pc = "return"] @@
              [shifted |-> ShiftBoth(tr.result, tr.offset, tr.signal_offset)]
    /\ UNCHANGED <<zvars, prev, ich>>

FillBoth(s, f) ==
    IF f # None
    THEN [main |-> RatFill(s.main, f[1]), signal |-> RatFill(s.signal, f[1])]
    ELSE s

\* cube, lines 79-108: None when every cell is missing, else fillna and
\* the DataFrame
CubeReturn ==
    /\ tr.pc = "return"
    /\ tr.args.fn = "cube"
    /\ IF AllNaN(tr.shifted.main) /\ AllNaN(tr.shifted.signal)
       THEN tr' = [tr EXCEPT !.pc = "none"]
       ELSE tr' = [tr EXCEPT !.pc = "done"] @@
                  [df |-> FillBoth(tr.shifted, tr.args.fillna)]
    /\ UNCHANGED <<zvars, prev, ich>>

\* numpy.max(a, axis) of a number a.  ifisher imports max from numpy (line
\* 2), so its max(offset, 0) and max(signal_offset, 0) are the maximum of the
\* one value a along axis 0, which is a itself: nothing is clamped.
numpy_max(a, axis) == a

\* ifisher, lines 36-44: validation.  signal_offset is -1 when absent or 0,
\* and a negative offset or signal_offset stays negative.
IfisherValidate ==
    /\ tr.pc = "validate"
    /\ tr.args.fn = "ifisher"
    /\ LET a == tr.args
       IN  tr' = [pc |-> "calculate", args |-> a,
                  amp |-> v_scalar(a.amp, DefaultAmp),
                  signal_offset |-> numpy_max(v_int(a.signal_offset, -1, 0), 0),
                  offset |-> numpy_max(v_offset(a.offset), 0)]
    /\ UNCHANGED <<zvars, prev, ich>>

\* ifisher, lines 46-63: the close, remapped to [-1, 1] when it leaves
\* that range, through the inverse Fisher function
IfisherCalculate ==
    /\ tr.pc = "calculate"
    /\ tr.args.fn = "ifisher"
    /\ LET close == tr.args.close
           is_remapped == \A k \in 1..Len(close) :
                              close[k] >= -1 /\ close[k] <= 1
           close_map == IF is_remapped
                        THEN Some([k \in 1..Len(close) |-> Rat(close[k], 1)])
                        ELSE remap(close,
                                   SetMin({close[k] : k \in 1..Len(close)}),
                                   SetMax({close[k] : k \in 1..Len(close)}))
       IN  IF close_map = None
           THEN tr' = [tr EXCEPT !.pc = "none"]
           ELSE tr' = [tr EXCEPT !.pc = "shift"] @@
                      [result |->
                          [k \in 1..Len(close) |->
                              Some(InvFisher(Rat(tr.amp * close_map[1][k].num,
                                                 close_map[1][k].den)))]]
    /\ UNCHANGED <<zvars, prev, ich>>

\* ifisher, lines 65-71: the shifts
IfisherShift ==
    /\ tr.pc = "shift"
    /\ tr.args.fn = "ifisher"
    /\ tr' = [tr EXCEPT !.pc = "return"] @@
              [shifted |-> ShiftBoth(tr.result, tr.offset, tr.signal_offset)]
    /\ UNCHANGED <<zvars, prev, ich>>

\* Series.fillna(v) on cells that hold any value
AnyFill(s, v) == [k \in 1..Len(s) |-> IF s[k] = NaN THEN Some(v) ELSE s[k]]

\* ifisher, lines 73-89: fillna and the DataFrame
IfisherReturn ==
    /\ tr.pc = "return"
    /\ tr.args.fn = "ifisher"
    /\ tr' = [tr EXCEPT !.pc = "done"] @@
              [df |-> IF tr.args.fillna # None
                      THEN [main |-> AnyFill(tr.shifted.main,
                                             tr.args.fillna[1]),
                            signal |-> AnyFill(tr.shifted.signal,
                                               tr.args.fillna[1])]
                      ELSE tr.shifted]
    /\ UNCHANGED <<zvars, prev, ich>>

TrInit ==
    /\ TrInputs(tr)
    /\ ZigzagIdle
    /\ ich = Idle

TrNext ==
    \/ CubeValidate
    \/ CubeCalculate
    \/ CubeShift
    \/ CubeReturn
    \/ IfisherValidate
    \/ IfisherCalculate
    \/ IfisherShift
    \/ IfisherReturn

TrSpec == TrInit /\ [][TrNext]_vars

\* max(x, 0) of an argument that may be absent
ArgOrZero(x) == IF x # None /\ x[1] > 0 THEN x[1] ELSE 0

\* C17 as stated: after the shifts of cube and of ifisher the main column
\* is the result moved by max(offset, 0) positions and the signal column the
\* result moved by max(offset, 0) + max(signal_offset, 0) positions.
C17_SignalOffset ==
    tr.pc = "done" =>
        /\ ShiftedBy(tr.shifted.main, tr.result, ArgOrZero(tr.args.offset))
        /\ ShiftedBy(tr.shifted.signal, tr.result,
                     ArgOrZero(tr.args.offset)
                         + ArgOrZero(tr.args.signal_offset))

====
